---- MODULE Spec2Model ----
(***************************************************************************)
(* Model of the focus-timer core of the Study Focus bot (src/index.js):    *)
(* the per-user session record, the statistics record, the timer handle    *)
(* store, the node-schedule jobs and the asynchronous handlers that touch  *)
(* them.                                                                   *)
(*                                                                         *)
(* Time is the wall clock in milliseconds.  The clock moves in quanta of   *)
(* half a minute; a scheduled job fires at the instant it is due (the      *)
(* clock does not pass a due job), and a handler suspended at an await     *)
(* (a Telegram request) resumes before the clock moves.  Handlers of       *)
(* different updates and jobs interleave at their awaits, as on the        *)
(* node.js event loop; between two awaits a handler runs atomically.       *)
(* Sessions are started during the first StartWindow milliseconds and      *)
(* observed until MaxTime; the scheduler holds at most MaxJobs jobs.       *)
(*                                                                         *)
(* session.pausedDuration is a float number of minutes in the source; it   *)
(* is kept here as an integer number of 1/60000 minutes.                   *)
(***************************************************************************)
EXTENDS Integers, Sequences, FiniteSets, TLC

VARIABLES now, session, stats, timerStore, jobs, pending, cleanupDue, last, tasks

vars == <<now, session, stats, timerStore, jobs, pending, cleanupDue, last, tasks>>

(***************************************************************************)
(* Bounds of the model.                                                    *)
(***************************************************************************)
Users == {1}
Durations == {1, 2}
StartInputs == Durations \cup {0}
ClockSteps == {30000}
CleanupPhases == {60000}
MaxTime == 390000
StartWindow == 60000
MaxJobs == 6
MaxPending == 2

(***************************************************************************)
(* Program constants.                                                      *)
(***************************************************************************)
MsPerMinute == 60000
MsPerDay == 86400000
BreakDelay == 300000
CleanupPeriod == 1800000
Null == -1
MsgSent == 1
Kinds == {"update", "end", "break"}

Max(a, b) == IF a > b THEN a ELSE b
Min(a, b) == IF a < b THEN a ELSE b

\* Math.round(num / den) for den > 0: halves round towards +infinity
MathRound(num, den) == (2 * num + den) \div (2 * den)

\* Math.floor(num / den) for den > 0
MathFloor(num, den) == num \div den

\* moment(t).format('YYYY-MM-DD'), as a day number
FormatDate(t) == t \div MsPerDay

initialSession ==
  [isStudying |-> FALSE, studyStartTime |-> Null, pauseStartTime |-> Null,
   totalPausedTime |-> 0, pausedDuration |-> 0, messageId |-> Null,
   plannedDuration |-> 0]

initialStats ==
  [totalStudyTime |-> 0, totalSessions |-> 0, longestSession |-> 0,
   totalCompletedTasks |-> 0, streak |-> 0, lastStudyDate |-> Null,
   dailyStudyTime |-> [d \in {} |-> 0]]

initialTimers == [k \in Kinds |-> Null]

\* the three states of the specification, read off the session record
SessState(s) ==
  IF ~s.isStudying THEN "Idle"
  ELSE IF s.pauseStartTime = Null THEN "Running" ELSE "Paused"

NoJob == [id |-> 0, kind |-> "none", user |-> 0, due |-> 0,
          startTime |-> 0, endTime |-> 0, duration |-> 0]

\* what the last handler did: the observable outcome of one step
Ev(op, u, ret, before, commits, render, job, tracked, paused) ==
  [op |-> op, user |-> u, ret |-> ret, before |-> before, commits |-> commits,
   render |-> render, job |-> job, tracked |-> tracked, paused |-> paused,
   outcome |-> "returned"]

NoRender == [remaining |-> Null, percent |-> Null]

(***************************************************************************)
(* Statistics (addCompletedSession).                                       *)
(***************************************************************************)
\* a streak that grows on any later day, whatever the gap
Streak_IgnoresGaps(st, t) ==
  IF st.lastStudyDate # Null
  THEN IF FormatDate(t) - FormatDate(st.lastStudyDate) >= 1 THEN st.streak + 1
       ELSE IF FormatDate(t) = FormatDate(st.lastStudyDate) THEN st.streak
       ELSE 1
  ELSE 1

Streak(st, t) ==
  IF st.lastStudyDate # Null
  THEN IF FormatDate(t) - FormatDate(st.lastStudyDate) = 1 THEN st.streak + 1
       ELSE IF FormatDate(t) = FormatDate(st.lastStudyDate) THEN st.streak
       ELSE 1
  ELSE 1

\* a commit that leaves the per-day minutes as they were
addCompletedSession_SkipsDaily(st, durationMinutes, t) ==
  [st EXCEPT
     !.totalStudyTime = @ + durationMinutes,
     !.totalSessions = @ + 1,
     !.longestSession = IF durationMinutes > @ THEN durationMinutes ELSE @,
     !.streak = Streak(st, t),
     !.lastStudyDate = t]

\* a commit that counts every session towards the streak
addCompletedSession_StreakPerSession(st, durationMinutes, t) ==
  LET today == FormatDate(t)
      daily == st.dailyStudyTime
      prev == IF today \in DOMAIN daily THEN daily[today] ELSE 0
  IN [st EXCEPT
        !.totalStudyTime = @ + durationMinutes,
        !.totalSessions = @ + 1,
        !.longestSession = IF durationMinutes > @ THEN durationMinutes ELSE @,
        !.dailyStudyTime = [d \in DOMAIN daily \cup {today} |->
                              IF d = today THEN prev + durationMinutes ELSE daily[d]],
        !.streak = st.streak + 2,
        !.lastStudyDate = t]

\* a commit that assigns the total instead of adding to it
addCompletedSession_AssignsTotal(st, durationMinutes, t) ==
  LET today == FormatDate(t)
      daily == st.dailyStudyTime
      prev == IF today \in DOMAIN daily THEN daily[today] ELSE 0
  IN [st EXCEPT
        !.totalStudyTime = durationMinutes,
        !.totalSessions = @ + 1,
        !.longestSession = IF durationMinutes > @ THEN durationMinutes ELSE @,
        !.dailyStudyTime = [d \in DOMAIN daily \cup {today} |->
                              IF d = today THEN prev + durationMinutes ELSE daily[d]],
        !.streak = Streak(st, t),
        !.lastStudyDate = t]

\* a commit that takes the last session as the longest and overwrites the day
addCompletedSession_Overwrites(st, durationMinutes, t) ==
  LET today == FormatDate(t)
      daily == st.dailyStudyTime
  IN [st EXCEPT
        !.totalStudyTime = @ + durationMinutes,
        !.totalSessions = @ + 1,
        !.longestSession = durationMinutes,
        !.dailyStudyTime = [d \in DOMAIN daily \cup {today} |->
                              IF d = today THEN durationMinutes ELSE daily[d]],
        !.streak = Streak(st, t),
        !.lastStudyDate = t]

addCompletedSession(st, durationMinutes, t) ==
  LET today == FormatDate(t)
      daily == st.dailyStudyTime
      prev == IF today \in DOMAIN daily THEN daily[today] ELSE 0
  IN [st EXCEPT
        !.totalStudyTime = @ + durationMinutes,
        !.totalSessions = @ + 1,
        !.longestSession = IF durationMinutes > @ THEN durationMinutes ELSE @,
        !.dailyStudyTime = [d \in DOMAIN daily \cup {today} |->
                              IF d = today THEN prev + durationMinutes ELSE daily[d]],
        !.streak = Streak(st, t),
        !.lastStudyDate = t]

RECURSIVE AddAll(_, _, _)
AddAll(st, commits, t) ==
  IF commits = <<>> THEN st
  ELSE AddAll(addCompletedSession(st, Head(commits), t), Tail(commits), t)

(***************************************************************************)
(* Timer handle store and scheduler.                                       *)
(***************************************************************************)
storeTimer(ts, u, timerType, id) == [ts EXCEPT ![u][timerType] = id]

\* a removal that clears the handle of that type for every user
removeTimer_EveryUser(ts, u, timerType) ==
  [v \in DOMAIN ts |-> [ts[v] EXCEPT ![timerType] = Null]]

removeTimer(ts, u, timerType) == [ts EXCEPT ![u][timerType] = Null]

\* Job.cancel(): the job leaves the scheduler; cancelling a job that already
\* ran or was cancelled does nothing
Cancel(js, ids) == {j \in js : j.id \notin ids}

StoredIds == {timerStore[u][k] : u \in DOMAIN timerStore, k \in Kinds} \ {Null}

FreeIds == (1..MaxJobs) \ ({j.id : j \in jobs} \cup StoredIds)

MinOf(S) == CHOOSE x \in S : \A y \in S : x <= y

\* the next wall-clock minute strictly after t (cron '*/1 * * * *')
NextMinute(t) == (t \div MsPerMinute + 1) * MsPerMinute

World == [session |-> session, stats |-> stats, timerStore |-> timerStore, jobs |-> jobs]

Apply(w) ==
  /\ session' = w.session
  /\ stats' = w.stats
  /\ timerStore' = w.timerStore
  /\ jobs' = w.jobs

(***************************************************************************)
(* stopFocusTimer                                                          *)
(***************************************************************************)
\* (endTime - studyStartTime - totalPausedTime), in milliseconds
StudyMs(s, t) == t - s.studyStartTime - s.totalPausedTime

\* a threshold that also lets exactly one minute through
MoreThanAMinute_AtLeast(ms) == ms >= MsPerMinute

\* "Only add to stats if more than a minute was studied": studyDuration > 1
MoreThanAMinute(ms) == ms > MsPerMinute

\* minutes truncated instead of rounded
StopMinutes_Floor(ms) == MathFloor(ms, MsPerMinute)

\* Math.round(studyDuration)
StopMinutes(ms) == MathRound(ms, MsPerMinute)

\* a stop that records the session twice
StopCommits_Twice(s, t) ==
  IF s.isStudying /\ s.studyStartTime # Null /\ MoreThanAMinute(StudyMs(s, t))
  THEN <<StopMinutes(StudyMs(s, t)), StopMinutes(StudyMs(s, t))>>
  ELSE <<>>

\* a stop that records a minute even when no session is running
StopCommits_EvenWhenIdle(s, t) ==
  IF s.isStudying /\ s.studyStartTime # Null /\ MoreThanAMinute(StudyMs(s, t))
  THEN <<StopMinutes(StudyMs(s, t))>>
  ELSE <<1>>

\* the values stopFocusTimer passes to addCompletedSession
StopCommits(s, t) ==
  IF s.isStudying /\ s.studyStartTime # Null /\ MoreThanAMinute(StudyMs(s, t))
  THEN <<StopMinutes(StudyMs(s, t))>>
  ELSE <<>>

\* a reset that leaves the session studying from the same start
ResetSession_StaysStudying(s) ==
  [s EXCEPT !.pauseStartTime = Null, !.totalPausedTime = 0, !.pausedDuration = 0,
            !.messageId = Null]

\* a reset that forgets to clear pauseStartTime
ResetSession_KeepsPause(s) ==
  [s EXCEPT !.isStudying = FALSE, !.studyStartTime = Null,
            !.totalPausedTime = 0, !.pausedDuration = 0, !.messageId = Null]

\* "Reset session": the updateUserSession call that ends stopFocusTimer
ResetSession(s) ==
  [s EXCEPT !.isStudying = FALSE, !.studyStartTime = Null, !.pauseStartTime = Null,
            !.totalPausedTime = 0, !.pausedDuration = 0, !.messageId = Null]

stopFocusTimer(w, u, t) ==
  LET timers == w.timerStore[u]
      ts1 == IF timers["update"] # Null THEN removeTimer(w.timerStore, u, "update")
             ELSE w.timerStore
      ts2 == IF timers["end"] # Null THEN removeTimer(ts1, u, "end") ELSE ts1
  IN [session |-> [w.session EXCEPT ![u] = ResetSession(@)],
      stats |-> [w.stats EXCEPT ![u] = AddAll(@, StopCommits(w.session[u], t), t)],
      timerStore |-> ts2,
      jobs |-> Cancel(w.jobs, {timers["update"], timers["end"]} \ {Null})]

(***************************************************************************)
(* Initial state.                                                          *)
(***************************************************************************)
Init ==
  /\ now = 0
  /\ session = [u \in Users |-> initialSession]
  /\ stats = [u \in Users |-> initialStats]
  /\ timerStore = [u \in Users |-> initialTimers]
  /\ jobs = {}
  /\ pending = {}
  /\ cleanupDue \in CleanupPhases
  /\ tasks = [u \in Users |-> <<>>]
  /\ last = Ev("init", 0, "none", "Idle", <<>>, NoRender, NoJob, FALSE, 0)

(***************************************************************************)
(* The clock.                                                              *)
(***************************************************************************)
ClockAdvance(step) ==
  /\ now + step <= MaxTime
  /\ pending = {}
  /\ \A j \in jobs : j.due >= now + step
  /\ cleanupDue >= now + step
  /\ now' = now + step
  /\ last' = Ev("clock", 0, "none", "Idle", <<>>, NoRender, NoJob, FALSE, 0)
  /\ UNCHANGED <<session, stats, timerStore, jobs, pending, cleanupDue, tasks>>

(***************************************************************************)
(* stop (handleStopFocusCallback -> stopFocusTimer)                        *)
(***************************************************************************)
Stop(u) ==
  /\ Apply(stopFocusTimer(World, u, now))
  /\ last' = Ev("stop", u, "stopped", SessState(session[u]),
                StopCommits(session[u], now), NoRender, NoJob, FALSE,
                session[u].totalPausedTime)
  /\ UNCHANGED <<now, pending, cleanupDue, tasks>>

(***************************************************************************)
(* generateTimerMessage: the two computed fields of the progress message   *)
(***************************************************************************)
\* the message computed without Math.max and Math.min
generateTimerMessage_Unclamped(startTime, endTime, pausedTime, t) ==
  [remaining |-> endTime - (t - pausedTime),
   percent |-> MathFloor((t - startTime - pausedTime) * 100, endTime - startTime)]

generateTimerMessage(startTime, endTime, pausedTime, t) ==
  LET adjustedNow == t - pausedTime
      remainingTime == endTime - adjustedNow
      totalDuration == endTime - startTime
      elapsed == t - startTime - pausedTime
  IN [remaining |-> Max(0, remainingTime),
      percent |-> Min(100, Max(0, MathFloor(elapsed * 100, totalDuration)))]

(***************************************************************************)
(* Handlers suspended at an await.                                         *)
(***************************************************************************)
FreePendingIds == (1..MaxPending) \ {p.id : p \in pending}

Suspend(kind, pc, u, duration, startTime) ==
  [id |-> MinOf(FreePendingIds), kind |-> kind, pc |-> pc, user |-> u,
   duration |-> duration, startTime |-> startTime]

FreeIdsOf(w) ==
  (1..MaxJobs) \ ({j.id : j \in w.jobs}
                  \cup ({w.timerStore[u][k] : u \in DOMAIN w.timerStore, k \in Kinds} \ {Null}))

\* job handles the suspended handlers will still ask the scheduler for
Reserved ==
  2 * Cardinality({p \in pending : p.kind = "start"})
  + Cardinality({p \in pending : p.kind = "complete"})

(***************************************************************************)
(* startFocusTimer                                                         *)
(***************************************************************************)
InvalidParameters(duration) == duration = 0 \/ duration <= 0

\* up to the first await: validation, stopFocusTimer, startTime = new Date()
StartBeginWithin(u, duration, window) ==
  IF InvalidParameters(duration)
  THEN /\ last' = Ev("start", u, "InvalidDuration", SessState(session[u]), <<>>,
                     NoRender, NoJob, FALSE, 0)
       /\ UNCHANGED <<now, session, stats, timerStore, jobs, pending, cleanupDue, tasks>>
  ELSE LET w == stopFocusTimer(World, u, now)
       IN /\ now <= window
          /\ FreePendingIds # {}
          /\ Cardinality(FreeIdsOf(w)) >= Reserved + 3
          /\ Apply(w)
          /\ pending' = pending \cup {Suspend("start", "notify", u, duration, now)}
          /\ last' = Ev("startBegin", u, "suspended", SessState(session[u]),
                        StopCommits(session[u], now), NoRender, NoJob, FALSE,
                        session[u].totalPausedTime)
          /\ UNCHANGED <<now, cleanupDue, tasks>>

\* starts are issued during the first StartWindow milliseconds
StartBegin(u, duration) == StartBeginWithin(u, duration, StartWindow)

StartedSession(s, startTime, duration) ==
  [s EXCEPT !.isStudying = TRUE, !.studyStartTime = startTime,
            !.pauseStartTime = Null, !.totalPausedTime = 0,
            !.pausedDuration = 0, !.plannedDuration = duration]

\* after the "Starting ..." notification (its failure is caught): the session
\* record is written, then the handler awaits the progress message
StartNotified(p) ==
  /\ p \in pending /\ p.kind = "start" /\ p.pc = "notify"
  /\ session' = [session EXCEPT ![p.user] = StartedSession(@, p.startTime, p.duration)]
  /\ pending' = (pending \ {p}) \cup {[p EXCEPT !.pc = "render"]}
  /\ last' = Ev("startNotified", p.user, "suspended", SessState(session[p.user]), <<>>,
                NoRender, NoJob, FALSE, 0)
  /\ UNCHANGED <<now, stats, timerStore, jobs, cleanupDue, tasks>>

\* scheduleTimerUpdates, schedule.scheduleJob(endTime, ...) and the two storeTimer calls
ScheduleSession(w, u, startTime, duration, t) ==
  LET endTime == startTime + duration * MsPerMinute
      free == FreeIdsOf(w)
      updateId == MinOf(free)
      endId == MinOf(free \ {updateId})
      updateJob == [id |-> updateId, kind |-> "update", user |-> u, due |-> NextMinute(t),
                    startTime |-> startTime, endTime |-> endTime, duration |-> duration]
      endJob == [id |-> endId, kind |-> "end", user |-> u, due |-> endTime,
                 startTime |-> startTime, endTime |-> endTime, duration |-> duration]
  IN [w EXCEPT !.jobs = @ \cup {updateJob, endJob},
               !.timerStore = storeTimer(storeTimer(@, u, "update", updateId), u, "end", endId)]

\* the progress message was sent (ok) or bot.sendMessage threw (~ok)
StartRendered(p, ok) ==
  /\ p \in pending /\ p.kind = "start" /\ p.pc = "render"
  /\ pending' = pending \ {p}
  /\ IF ok
     THEN /\ Apply(ScheduleSession(
                     [World EXCEPT !.session[p.user].messageId = MsgSent],
                     p.user, p.startTime, p.duration, now))
          /\ last' = Ev("start", p.user, "started", SessState(session[p.user]), <<>>,
                        generateTimerMessage(p.startTime,
                                             p.startTime + p.duration * MsPerMinute, 0, now),
                        NoJob, FALSE, 0)
     ELSE /\ UNCHANGED <<session, stats, timerStore, jobs>>
          /\ last' = [Ev("start", p.user, "failed", SessState(session[p.user]), <<>>,
                         NoRender, NoJob, FALSE, 0)
                      EXCEPT !.outcome = "thrown"]
  /\ UNCHANGED <<now, cleanupDue, tasks>>

(***************************************************************************)
(* pauseFocusTimer, resumeFocusTimer                                       *)
(***************************************************************************)
\* a pause that restarts the pause of an already paused session
Pause_Repauses(u) ==
  LET s == session[u]
  IN /\ IF ~s.isStudying
        THEN /\ session' = session
             /\ last' = Ev("pause", u, "NoActiveTimer", SessState(s), <<>>,
                           NoRender, NoJob, FALSE, 0)
        ELSE /\ session' = [session EXCEPT ![u].pauseStartTime = now]
             /\ last' = Ev("pause", u, "paused", SessState(s), <<>>,
                           NoRender, NoJob, FALSE, 0)
     /\ UNCHANGED <<now, stats, timerStore, jobs, pending, cleanupDue, tasks>>

Pause(u) ==
  LET s == session[u]
  IN /\ IF ~s.isStudying \/ s.pauseStartTime # Null
        THEN /\ session' = session
             /\ last' = Ev("pause", u, "NoActiveTimer", SessState(s), <<>>,
                           NoRender, NoJob, FALSE, 0)
        ELSE /\ session' = [session EXCEPT ![u].pauseStartTime = now]
             /\ last' = Ev("pause", u, "paused", SessState(s), <<>>,
                           NoRender, NoJob, FALSE, 0)
     /\ UNCHANGED <<now, stats, timerStore, jobs, pending, cleanupDue, tasks>>

\* a resume that pushes the stored completion job back by the pause
Resume_ExtendsDeadline(u) ==
  LET s == session[u]
      pauseDuration == now - s.pauseStartTime
  IN /\ IF ~s.isStudying \/ s.pauseStartTime = Null
        THEN /\ session' = session
             /\ jobs' = jobs
             /\ last' = Ev("resume", u, "NoPausedTimer", SessState(s), <<>>,
                           NoRender, NoJob, FALSE, 0)
        ELSE /\ session' = [session EXCEPT
                              ![u].pauseStartTime = Null,
                              ![u].totalPausedTime = s.totalPausedTime + pauseDuration,
                              ![u].pausedDuration = s.pausedDuration + pauseDuration]
             /\ jobs' = {IF j.id = timerStore[u]["end"]
                          THEN [j EXCEPT !.due = @ + pauseDuration] ELSE j : j \in jobs}
             /\ last' = Ev("resume", u, "resumed", SessState(s), <<>>,
                           NoRender, NoJob, FALSE, pauseDuration)
     /\ UNCHANGED <<now, stats, timerStore, pending, cleanupDue, tasks>>

\* a resume that does not test for a pause in progress: on a Running session
\* the pause is taken to have started at the epoch
Resume_Unguarded(u) ==
  LET s == session[u]
      pauseDuration == IF s.pauseStartTime = Null THEN now + 1 ELSE now - s.pauseStartTime
  IN /\ IF ~s.isStudying
        THEN /\ session' = session
             /\ last' = Ev("resume", u, "NoPausedTimer", SessState(s), <<>>,
                           NoRender, NoJob, FALSE, 0)
        ELSE /\ session' = [session EXCEPT
                              ![u].pauseStartTime = Null,
                              ![u].totalPausedTime = s.totalPausedTime + pauseDuration,
                              ![u].pausedDuration = s.pausedDuration + pauseDuration]
             /\ last' = Ev("resume", u, "resumed", SessState(s), <<>>,
                           NoRender, NoJob, FALSE, pauseDuration)
     /\ UNCHANGED <<now, stats, timerStore, jobs, pending, cleanupDue, tasks>>

\* a resume that keeps only the last pause instead of accumulating
Resume_Overwrites(u) ==
  LET s == session[u]
      pauseDuration == now - s.pauseStartTime
  IN /\ IF ~s.isStudying \/ s.pauseStartTime = Null
        THEN /\ session' = session
             /\ last' = Ev("resume", u, "NoPausedTimer", SessState(s), <<>>,
                           NoRender, NoJob, FALSE, 0)
        ELSE /\ session' = [session EXCEPT
                              ![u].pauseStartTime = Null,
                              ![u].totalPausedTime = pauseDuration,
                              ![u].pausedDuration = pauseDuration]
             /\ last' = Ev("resume", u, "resumed", SessState(s), <<>>,
                           NoRender, NoJob, FALSE, pauseDuration)
     /\ UNCHANGED <<now, stats, timerStore, jobs, pending, cleanupDue, tasks>>

Resume(u) ==
  LET s == session[u]
      pauseDuration == now - s.pauseStartTime
  IN /\ IF ~s.isStudying \/ s.pauseStartTime = Null
        THEN /\ session' = session
             /\ last' = Ev("resume", u, "NoPausedTimer", SessState(s), <<>>,
                           NoRender, NoJob, FALSE, 0)
        ELSE /\ session' = [session EXCEPT
                              ![u].pauseStartTime = Null,
                              ![u].totalPausedTime = s.totalPausedTime + pauseDuration,
                              ![u].pausedDuration = s.pausedDuration + pauseDuration]
             /\ last' = Ev("resume", u, "resumed", SessState(s), <<>>,
                           NoRender, NoJob, FALSE, pauseDuration)
     /\ UNCHANGED <<now, stats, timerStore, jobs, pending, cleanupDue, tasks>>

(***************************************************************************)
(* How a callback ends when some of its notification calls fail: it       *)
(* returns, or an error leaves it ("thrown").                              *)
(***************************************************************************)
NotificationCalls == {"editMessageText", "sendVoice", "sendMessage", "fallbackMessage"}

\* an awaited bot call
Call(name, fails) == IF name \in fails THEN "thrown" ELSE "returned"

\* statements in sequence
Then(first, rest) == IF first = "thrown" THEN "thrown" ELSE rest

\* a try block without a working catch
TryCatch_Rethrows(body, handler) == body

\* try { body } catch { handler }
TryCatch(body, handler) == IF body = "thrown" THEN handler ELSE "returned"

\* the job scheduled by scheduleTimerUpdates
updateCallback(rendered, fails) ==
  IF rendered THEN TryCatch(Call("editMessageText", fails), "returned") ELSE "returned"

handleTimerComplete(studying, fails) ==
  TryCatch(IF ~studying THEN "returned"
           ELSE Then(TryCatch(Call("sendVoice", fails), "returned"),
                     Call("sendMessage", fails)),
           TryCatch(Call("fallbackMessage", fails), "returned"))

\* handleTimerComplete(chatId, duration).catch(error => console.error(...))
endJobCallback(studying, fails) ==
  TryCatch(handleTimerComplete(studying, fails), "returned")

breakReminderCallback(fails) ==
  TryCatch(Then(TryCatch(Call("sendVoice", fails), "returned"),
                Call("sendMessage", fails)),
           "returned")

(***************************************************************************)
(* The recurring update job (scheduleTimerUpdates)                         *)
(***************************************************************************)
FireUpdate(j) ==
  LET s == session[j.user]
      rendered == s.pauseStartTime = Null /\ s.isStudying /\ s.messageId # Null
  IN /\ j \in jobs /\ j.kind = "update" /\ j.due <= now
     /\ jobs' = (jobs \ {j}) \cup {[j EXCEPT !.due = NextMinute(now)]}
     /\ \E fails \in SUBSET {"editMessageText"} :
          last' = [Ev("tick", j.user, IF rendered THEN "rendered" ELSE "skipped",
                      SessState(s), <<>>,
                      IF rendered
                      THEN generateTimerMessage(j.startTime, j.endTime,
                                                s.totalPausedTime, now)
                      ELSE NoRender,
                      j, timerStore[j.user]["update"] = j.id, s.totalPausedTime)
                   EXCEPT !.outcome = updateCallback(rendered, fails)]
     /\ UNCHANGED <<now, session, stats, timerStore, pending, cleanupDue, tasks>>

(***************************************************************************)
(* handleTimerComplete                                                     *)
(***************************************************************************)
\* the paused minutes subtracted as they are, without the division by 60
ActualMinutes_PausedInMinutes(duration, pausedDuration) ==
  IF pausedDuration > 0
  THEN MathRound(duration * MsPerMinute - pausedDuration, MsPerMinute)
  ELSE duration

\* Math.round(actualDuration), where
\* actualDuration = pausedDuration > 0 ? duration - pausedDuration / 60 : duration
ActualMinutes(duration, pausedDuration) ==
  IF pausedDuration > 0
  THEN MathRound(duration * MsPerMinute * 60 - pausedDuration, MsPerMinute * 60)
  ELSE duration

\* a completion handler without its guard
StillStudying_Always(s) == TRUE

\* "Only proceed if user is still studying"
StillStudying(s) == s.isStudying

\* up to the first await: the isStudying guard, addCompletedSession, stopFocusTimer
FireEnd(j) ==
  LET u == j.user
      s == session[u]
      js == jobs \ {j}
      actual == ActualMinutes(j.duration, s.pausedDuration)
      w1 == [World EXCEPT !.jobs = js,
                          !.stats[u] = addCompletedSession(@, actual, now)]
      w2 == stopFocusTimer(w1, u, now)
  IN /\ j \in jobs /\ j.kind = "end" /\ j.due <= now
     /\ IF ~StillStudying(s)
        THEN /\ jobs' = js
             /\ last' = [Ev("complete", u, "ignored", SessState(s), <<>>, NoRender,
                            j, timerStore[u]["end"] = j.id, s.pausedDuration)
                         EXCEPT !.outcome = endJobCallback(FALSE, {})]
             /\ UNCHANGED <<session, stats, timerStore, pending>>
        ELSE /\ FreePendingIds # {}
             /\ Cardinality(FreeIdsOf(w2)) >= Reserved + 1
             /\ Apply(w2)
             /\ pending' = pending \cup {Suspend("complete", "congrats", u, j.duration, now)}
             /\ last' = Ev("complete", u, "committed", SessState(s),
                           <<actual>> \o StopCommits(s, now), NoRender,
                           j, timerStore[u]["end"] = j.id, s.pausedDuration)
     /\ UNCHANGED <<now, cleanupDue, tasks>>

\* the congratulation message was sent (ok): the break reminder is scheduled and
\* stored; or bot.sendMessage threw (~ok): the catch block sends a fallback
CompleteCongrats(p, ok) ==
  /\ p \in pending /\ p.kind = "complete" /\ p.pc = "congrats"
  /\ pending' = pending \ {p}
  /\ IF ok
     THEN LET id == MinOf(FreeIds)
              breakReminder == [id |-> id, kind |-> "break", user |-> p.user,
                                due |-> now + BreakDelay, startTime |-> 0,
                                endTime |-> 0, duration |-> 0]
          IN /\ jobs' = jobs \cup {breakReminder}
             /\ timerStore' = storeTimer(timerStore, p.user, "break", id)
             /\ \E fails \in SUBSET {"sendVoice"} :
                  last' = [Ev("completeRendered", p.user, "breakScheduled",
                              SessState(session[p.user]), <<>>, NoRender,
                              breakReminder, TRUE, 0)
                           EXCEPT !.outcome = endJobCallback(TRUE, fails)]
     ELSE /\ UNCHANGED <<jobs, timerStore>>
          /\ \E fails \in SUBSET {"sendVoice", "fallbackMessage"} :
               last' = [Ev("completeRendered", p.user, "failed",
                           SessState(session[p.user]), <<>>, NoRender, NoJob, FALSE, 0)
                        EXCEPT !.outcome = endJobCallback(TRUE, fails \cup {"sendMessage"})]
  /\ UNCHANGED <<now, session, stats, cleanupDue, tasks>>

(***************************************************************************)
(* The break reminder job                                                  *)
(***************************************************************************)
FireBreak(j) ==
  /\ j \in jobs /\ j.kind = "break" /\ j.due <= now
  /\ FreePendingIds # {}
  /\ jobs' = jobs \ {j}
  /\ pending' = pending \cup {Suspend("break", "finally", j.user, 0, now)}
  /\ last' = Ev("break", j.user, "fired", SessState(session[j.user]), <<>>, NoRender,
                j, timerStore[j.user]["break"] = j.id, 0)
  /\ UNCHANGED <<now, session, stats, timerStore, cleanupDue, tasks>>

\* finally { removeTimer(chatId, 'break') }
BreakFinally(p) ==
  /\ p \in pending /\ p.kind = "break" /\ p.pc = "finally"
  /\ pending' = pending \ {p}
  /\ timerStore' = removeTimer(timerStore, p.user, "break")
  /\ \E fails \in SUBSET {"sendVoice", "sendMessage"} :
       last' = [Ev("breakFinally", p.user, "removed", SessState(session[p.user]), <<>>,
                   NoRender, NoJob, FALSE, 0)
                EXCEPT !.outcome = breakReminderCallback(fails)]
  /\ UNCHANGED <<now, session, stats, jobs, cleanupDue, tasks>>

(***************************************************************************)
(* cleanupTimers, every 30 minutes                                         *)
(***************************************************************************)
\* a sweep that does not look at the session
cleanupTimers_SweepsStudying(w) ==
  [w EXCEPT
     !.jobs = Cancel(@, {w.timerStore[u][k] : u \in DOMAIN w.session, k \in Kinds} \ {Null}),
     !.timerStore = [u \in DOMAIN w.timerStore |-> initialTimers]]

cleanupTimers(w) ==
  LET idle == {u \in DOMAIN w.session : ~w.session[u].isStudying}
  IN [w EXCEPT
        !.jobs = Cancel(@, {w.timerStore[u][k] : u \in idle, k \in Kinds} \ {Null}),
        !.timerStore = [u \in DOMAIN w.timerStore |->
                          IF u \in idle THEN initialTimers ELSE w.timerStore[u]]]

Cleanup ==
  /\ cleanupDue <= now
  /\ Apply(cleanupTimers(World))
  /\ cleanupDue' = cleanupDue + CleanupPeriod
  /\ last' = Ev("cleanup", 0, IF cleanupTimers(World) = World THEN "clean" ELSE "swept",
                "Idle", <<>>, NoRender, NoJob, FALSE, 0)
  /\ UNCHANGED <<now, pending, tasks>>

Next ==
  \/ \E step \in ClockSteps : ClockAdvance(step)
  \/ \E u \in DOMAIN session : \E d \in StartInputs : StartBegin(u, d)
  \/ \E p \in pending : StartNotified(p)
  \/ \E p \in pending : \E ok \in BOOLEAN : StartRendered(p, ok)
  \/ \E u \in DOMAIN session : Stop(u)
  \/ \E u \in DOMAIN session : Pause(u)
  \/ \E u \in DOMAIN session : Resume(u)
  \/ \E j \in jobs : FireUpdate(j)
  \/ \E j \in jobs : FireEnd(j)
  \/ \E p \in pending : \E ok \in BOOLEAN : CompleteCongrats(p, ok)
  \/ \E j \in jobs : FireBreak(j)
  \/ \E p \in pending : BreakFinally(p)
  \/ Cleanup

Spec == Init /\ [][Next]_vars

(***************************************************************************)
(* The entry paths of a start: the /focus command, the focus_<n> button    *)
(* callbacks and the custom duration text.                                 *)
(***************************************************************************)
EntryMaxTime == 60000

MaxFocusMinutes == 180
MinCustomMinutes == 5

\* texts after /focus: one that matches no format, "0", "1", "3h", "3h1m"
CommandInputs ==
  {[form |-> "invalid", h |-> 0, m |-> 0],
   [form |-> "minutes", h |-> 0, m |-> 0],
   [form |-> "minutes", h |-> 0, m |-> 1],
   [form |-> "hours", h |-> 3, m |-> 0],
   [form |-> "combined", h |-> 3, m |-> 1]}

\* texts sent as a custom duration: "4", "5m", "3h1m"
CustomInputs ==
  {[form |-> "minutes", h |-> 0, m |-> 4],
   [form |-> "minutes", h |-> 0, m |-> 5],
   [form |-> "combined", h |-> 3, m |-> 1]}

\* callback data focus_x, focus_-1, focus_1, focus_181 after parseInt
CallbackInputs ==
  {[isNaN |-> TRUE, n |-> 0],
   [isNaN |-> FALSE, n |-> 0 - 1],
   [isNaN |-> FALSE, n |-> 1],
   [isNaN |-> FALSE, n |-> 181]}

parseDuration(durationStr) ==
  CASE durationStr.form = "minutes" -> durationStr.m
    [] durationStr.form = "hours" -> durationStr.h * 60
    [] durationStr.form = "combined" -> durationStr.h * 60 + durationStr.m
    [] OTHER -> Null

\* the handler answers with an error message and starts nothing
RejectDuration(u) ==
  /\ last' = Ev("start", u, "InvalidDuration", SessState(session[u]), <<>>,
                NoRender, NoJob, FALSE, 0)
  /\ UNCHANGED <<now, session, stats, timerStore, jobs, pending, cleanupDue, tasks>>

handleFocusCommand(u, durationInput) ==
  LET duration == parseDuration(durationInput)
  IN IF duration # Null /\ duration # 0 /\ duration > 0 /\ duration <= MaxFocusMinutes
     THEN StartBegin(u, duration)
     ELSE RejectDuration(u)

\* callback_query handler, data focus_<n>: handleFocusCallback -> startFocusTimer
handleFocusCallback(u, data) ==
  IF ~data.isNaN /\ data.n > 0
  THEN StartBegin(u, data.n)
  ELSE RejectDuration(u)

\* message handler while the session awaits a custom duration
handleCustomDuration(u, text) ==
  LET duration == parseDuration(text)
  IN IF duration # Null /\ duration # 0
        /\ duration >= MinCustomMinutes /\ duration <= MaxFocusMinutes
     THEN StartBegin(u, duration)
     ELSE RejectDuration(u)

\* the commands are the three ways to start and the stop button
NextEntry ==
  \/ \E step \in ClockSteps : ClockAdvance(step) /\ now' <= EntryMaxTime
  \/ \E u \in DOMAIN session : \E text \in CommandInputs : handleFocusCommand(u, text)
  \/ \E u \in DOMAIN session : \E data \in CallbackInputs : handleFocusCallback(u, data)
  \/ \E u \in DOMAIN session : \E text \in CustomInputs : handleCustomDuration(u, text)
  \/ \E p \in pending : StartNotified(p)
  \/ \E p \in pending : \E ok \in BOOLEAN : StartRendered(p, ok)
  \/ \E u \in DOMAIN session : Stop(u)
  \/ \E j \in jobs : FireUpdate(j)
  \/ \E j \in jobs : FireEnd(j)
  \/ \E p \in pending : \E ok \in BOOLEAN : CompleteCongrats(p, ok)
  \/ Cleanup

SpecEntry == Init /\ [][NextEntry]_vars

(***************************************************************************)
(* The statistics over several days: commits of finished sessions and the  *)
(* /stats view (getFormattedStats -> calculateProductivityScore).          *)
(***************************************************************************)
FirstDay == 10
StatsDays == 5
MaxDailyMinutes == 3
SeriesDays == 8

DaySteps == {43200000, 86400000}
CommitMinutes == {1, 2}

maxDailyTime == 120
maxStreak == 7
maxSessions == 30
maxCompletedTasks == 50

\* a user who studied four 180-minute sessions on each of the ten days before
\* today and has completed 60 tasks
seasonedStats(today) ==
  [totalStudyTime |-> 7200, totalSessions |-> 40, longestSession |-> 180,
   totalCompletedTasks |-> 60, streak |-> 10,
   lastStudyDate |-> today * MsPerDay - 43200000,
   dailyStudyTime |-> [d \in (today - 10)..(today - 1) |-> 720]]

\* the 60 completed tasks of that user
seasonedTasks == [i \in 1..60 |-> [id |-> i, completed |-> TRUE]]

\* a series that starts one day early and so leaves today out
getDailyStudyStats_EndsYesterday(dailyData, days, t) ==
  [i \in 1..days |->
     LET date == FormatDate(t) - (days - i) - 1
     IN [date |-> date,
         minutes |-> IF date \in DOMAIN dailyData THEN dailyData[date] ELSE 0]]

getDailyStudyStats(dailyData, days, t) ==
  [i \in 1..days |->
     LET date == FormatDate(t) - (days - i)
     IN [date |-> date,
         minutes |-> IF date \in DOMAIN dailyData THEN dailyData[date] ELSE 0]]

\* dailyStats.reduce((sum, day) => sum + day.minutes, 0)
RECURSIVE SumMinutes(_)
SumMinutes(dailyStats) ==
  IF dailyStats = <<>> THEN 0
  ELSE Head(dailyStats).minutes + SumMinutes(Tail(dailyStats))

\* a sub-score without its upper clamp
SubScore_Unclamped(num, den) == MathRound(num * 25, den)

\* Math.min(25, Math.round((num / den) * 25))
SubScore(num, den) == Min(25, MathRound(num * 25, den))

ProductivityScores(st, dailyStats) ==
  [activeScore |-> SubScore(SumMinutes(dailyStats), 7 * maxDailyTime),
   streakScore |-> SubScore(st.streak, maxStreak),
   sessionScore |-> SubScore(st.totalSessions, maxSessions),
   taskScore |-> SubScore(st.totalCompletedTasks, maxCompletedTasks)]

calculateProductivityScore(st, dailyStats) ==
  LET sc == ProductivityScores(st, dailyStats)
  IN sc.activeScore + sc.streakScore + sc.sessionScore + sc.taskScore

InitStats ==
  /\ now = FirstDay * MsPerDay
  /\ session = [u \in Users |-> initialSession]
  /\ stats \in [Users -> {initialStats, seasonedStats(FirstDay)}]
  /\ timerStore = [u \in Users |-> initialTimers]
  /\ jobs = {}
  /\ pending = {}
  /\ cleanupDue = (FirstDay + StatsDays + 1) * MsPerDay
  /\ tasks = [u \in Users |-> IF stats[u].totalCompletedTasks = 0 THEN <<>>
                                ELSE seasonedTasks]
  /\ last = Ev("init", 0, "none", "Idle", <<>>, NoRender, NoJob, FALSE, 0)

DayAdvance(step) ==
  /\ now + step <= (FirstDay + StatsDays) * MsPerDay
  /\ now' = now + step
  /\ last' = Ev("clock", 0, "none", "Idle", <<>>, NoRender, NoJob, FALSE, 0)
  /\ UNCHANGED <<session, stats, timerStore, jobs, pending, cleanupDue, tasks>>

\* a session of durationMinutes ends now and is recorded
CommitSession(u, durationMinutes) ==
  LET today == FormatDate(now)
      daily == stats[u].dailyStudyTime
      prev == IF today \in DOMAIN daily THEN daily[today] ELSE 0
  IN /\ prev + durationMinutes <= MaxDailyMinutes
     /\ stats' = [stats EXCEPT ![u] = addCompletedSession(@, durationMinutes, now)]
     /\ last' = Ev("commit", u, "committed", "Idle", <<durationMinutes>>,
                   NoRender, NoJob, FALSE, 0)
     /\ UNCHANGED <<now, session, timerStore, jobs, pending, cleanupDue, tasks>>

\* /stats: the score shown to the user
ViewStats(u) ==
  LET dailyStats == getDailyStudyStats(stats[u].dailyStudyTime, 7, now)
  IN /\ last' = Ev("stats", u, "shown", "Idle", <<>>,
                   [score |-> calculateProductivityScore(stats[u], dailyStats),
                    scores |-> ProductivityScores(stats[u], dailyStats),
                    dailyStats |-> dailyStats],
                   NoJob, FALSE, 0)
     /\ UNCHANGED <<now, session, stats, timerStore, jobs, pending, cleanupDue, tasks>>

NextStats ==
  \/ \E step \in DaySteps : DayAdvance(step)
  \/ \E u \in DOMAIN stats : \E m \in CommitMinutes : CommitSession(u, m)
  \/ \E u \in DOMAIN stats : ViewStats(u)

SpecStats == InitStats /\ [][NextStats]_vars

(***************************************************************************)
(* The task list (addUserTask, toggleTaskComplete, deleteUserTask).        *)
(***************************************************************************)
MaxTasks == 3
MaxTaskId == 4

\* the next id taken from the length of the list
NextTaskId_Length(list) == Len(list) + 1

\* Math.max(...tasks.map(t => t.id)) + 1, or 1 for an empty list
NextTaskId(list) ==
  IF Len(list) > 0
  THEN (CHOOSE m \in {list[i].id : i \in 1..Len(list)} :
          \A i \in 1..Len(list) : list[i].id <= m) + 1
  ELSE 1

\* tasks.findIndex(t => t.id === taskId)
FindIndex(list, taskId) ==
  IF \E i \in 1..Len(list) : list[i].id = taskId
  THEN MinOf({i \in 1..Len(list) : list[i].id = taskId})
  ELSE Null

addUserTask(list) == Append(list, [id |-> NextTaskId(list), completed |-> FALSE])

\* tasks.splice(taskIndex, 1)
Splice(list, taskIndex) ==
  [i \in 1..(Len(list) - 1) |-> IF i < taskIndex THEN list[i] ELSE list[i + 1]]

\* Math.max(0, totalCompletedTasks - 1)
\* a count that is never reduced
Decrement_Keeps(count) == count

Decrement(count) == Max(0, count - 1)

AddTask(u) ==
  /\ Len(tasks[u]) < MaxTasks
  /\ NextTaskId(tasks[u]) <= MaxTaskId
  /\ tasks' = [tasks EXCEPT ![u] = addUserTask(@)]
  /\ last' = Ev("addTask", u, "added", SessState(session[u]), <<>>, NoRender,
                NoJob, FALSE, 0)
  /\ UNCHANGED <<now, session, stats, timerStore, jobs, pending, cleanupDue>>

ToggleTask(u, taskId) ==
  LET taskIndex == FindIndex(tasks[u], taskId)
  IN /\ IF taskIndex = Null
        THEN /\ UNCHANGED <<tasks, stats>>
             /\ last' = Ev("toggleTask", u, "notFound", SessState(session[u]), <<>>,
                           NoRender, NoJob, FALSE, 0)
        ELSE LET completed == ~tasks[u][taskIndex].completed
             IN /\ tasks' = [tasks EXCEPT ![u][taskIndex].completed = completed]
                /\ stats' = [stats EXCEPT ![u].totalCompletedTasks =
                                IF completed THEN @ + 1 ELSE Decrement(@)]
                /\ last' = Ev("toggleTask", u, "toggled", SessState(session[u]), <<>>,
                              NoRender, NoJob, FALSE, 0)
     /\ UNCHANGED <<now, session, timerStore, jobs, pending, cleanupDue>>

DeleteTask(u, taskId) ==
  LET taskIndex == FindIndex(tasks[u], taskId)
  IN /\ IF taskIndex = Null
        THEN /\ UNCHANGED <<tasks, stats>>
             /\ last' = Ev("deleteTask", u, "notFound", SessState(session[u]), <<>>,
                           NoRender, NoJob, FALSE, 0)
        ELSE /\ stats' = [stats EXCEPT ![u].totalCompletedTasks =
                             IF tasks[u][taskIndex].completed THEN Decrement(@) ELSE @]
             /\ tasks' = [tasks EXCEPT ![u] = Splice(@, taskIndex)]
             /\ last' = Ev("deleteTask", u, "deleted", SessState(session[u]), <<>>,
                           NoRender, NoJob, FALSE, 0)
     /\ UNCHANGED <<now, session, timerStore, jobs, pending, cleanupDue>>

\* the task commands and the commits of finished sessions, within one day
NextTasks ==
  \/ \E u \in DOMAIN tasks : AddTask(u)
  \/ \E u \in DOMAIN tasks : \E taskId \in 1..MaxTaskId : ToggleTask(u, taskId)
  \/ \E u \in DOMAIN tasks : \E taskId \in 1..MaxTaskId : DeleteTask(u, taskId)
  \/ \E u \in DOMAIN stats : \E m \in CommitMinutes : CommitSession(u, m)

SpecTasks == Init /\ [][NextTasks]_vars

(***************************************************************************)
(* Two users of the bot at once: every user has an entry of its own in     *)
(* userStore and in timerStore, made on first access.                      *)
(***************************************************************************)
TwoUsers == {1, 2}
UsersMaxTime == 60000

InitUsers ==
  /\ now = 0
  /\ session = [u \in TwoUsers |-> initialSession]
  /\ stats = [u \in TwoUsers |-> initialStats]
  /\ timerStore = [u \in TwoUsers |-> initialTimers]
  /\ jobs = {}
  /\ pending = {}
  /\ cleanupDue \in CleanupPhases
  /\ tasks = [u \in TwoUsers |-> <<>>]
  /\ last = Ev("init", 0, "none", "Idle", <<>>, NoRender, NoJob, FALSE, 0)

\* Both users start one-minute sessions at time 0 and see them rendered; a
\* user sends a start only when no earlier start of theirs is still awaiting,
\* keeps at most one task, and sends task commands while no handler awaits.
NextUsers ==
  \/ \E step \in ClockSteps : ClockAdvance(step) /\ now' <= UsersMaxTime
  \/ \E u \in DOMAIN session :
       /\ now = 0
       /\ \A p \in pending : p.user # u
       /\ StartBegin(u, 1)
  \/ \E p \in pending : StartNotified(p)
  \/ \E p \in pending : StartRendered(p, TRUE)
  \/ \E u \in DOMAIN session : Stop(u)
  \/ \E u \in DOMAIN session : Pause(u)
  \/ \E u \in DOMAIN session : Resume(u)
  \/ \E j \in jobs : FireUpdate(j)
  \/ \E j \in jobs : FireEnd(j)
  \/ \E p \in pending : \E ok \in BOOLEAN : CompleteCongrats(p, ok)
  \/ Cleanup
  \/ \E u \in DOMAIN tasks : pending = {} /\ tasks[u] = <<>> /\ AddTask(u)
  \/ \E u \in DOMAIN tasks : \E taskId \in 1..MaxTaskId :
       pending = {} /\ ToggleTask(u, taskId)
  \/ \E u \in DOMAIN tasks : \E taskId \in 1..MaxTaskId :
       pending = {} /\ DeleteTask(u, taskId)

SpecUsers == InitUsers /\ [][NextUsers]_vars

(***************************************************************************)
(* A start issued over a session that is Running or Paused: two-minute     *)
(* sessions, with starts up to a minute and a half after the first.        *)
(***************************************************************************)
RestartMaxTime == 90000

NextRestart ==
  \/ \E step \in ClockSteps : ClockAdvance(step) /\ now' <= RestartMaxTime
  \/ \E u \in DOMAIN session : StartBeginWithin(u, 2, RestartMaxTime)
  \/ \E p \in pending : StartNotified(p)
  \/ \E p \in pending : \E ok \in BOOLEAN : StartRendered(p, ok)
  \/ \E u \in DOMAIN session : Stop(u)
  \/ \E u \in DOMAIN session : Pause(u)
  \/ \E u \in DOMAIN session : Resume(u)
  \/ \E j \in jobs : FireUpdate(j)
  \/ Cleanup

SpecRestart == Init /\ [][NextRestart]_vars

(***************************************************************************)
(* Properties.                                                             *)
(***************************************************************************)
\* the step just taken was handleTimerComplete for user u
Completed(u) == last'.op = "complete" /\ last'.user = u

\* C1: when the completion trigger fires for a Running session, exactly one
\* session is committed: totalSessions grows by exactly 1 and totalStudyTime by
\* the rounded accounted minutes, once.
C1_CompletionCommitsOnce ==
  [][\A u \in DOMAIN session :
       (Completed(u) /\ SessState(session[u]) = "Running")
       => /\ stats'[u].totalSessions = stats[u].totalSessions + 1
          /\ stats'[u].totalStudyTime = stats[u].totalStudyTime + last'.commits[1]]_vars

\* C2: the minutes committed by the completion trigger are
\* round(plannedDurationMinutes - pausedDurationMinutes), the paused minutes being
\* the sum of the completed pause intervals.
C2_CompletionMinutes ==
  [][\A u \in DOMAIN session :
       (Completed(u) /\ last'.ret = "committed")
       => last'.commits[1] =
            MathRound(last'.job.duration * MsPerMinute - session[u].pausedDuration,
                      MsPerMinute)]_vars

\* C3: a completion trigger invoked for a session that an earlier invocation has
\* already completed changes neither the stats, nor the session, nor the stored
\* timer handles.
C3_SecondCompletionNoOp ==
  [][\A u \in DOMAIN session :
       (Completed(u) /\ ~session[u].isStudying)
       => /\ stats' = stats
          /\ session' = session
          /\ timerStore' = timerStore]_vars

\* a completion was ignored at the very instant an earlier one committed the session
C3_Witness ==
  /\ last.op = "complete" /\ last.ret = "ignored" /\ last.before = "Idle"
  /\ last.job.due = now
  /\ stats[last.user].totalSessions >= 1
  /\ stats[last.user].lastStudyDate = now

\* C4: a completion trigger whose session has been stopped or superseded by a
\* newer start (its handle is no longer the one recorded for the user) never
\* commits stats and never changes the user's current session.
C4_StaleCompletionIgnored ==
  (last.op = "complete" /\ ~last.tracked) => last.ret = "ignored"

\* C5: at most one tick job and one completion job are live for a user, and
\* both are the ones recorded in the handle store: no scheduled job is left
\* untracked.
C5_JobsTracked ==
  \A j \in jobs : j.kind \in {"update", "end"} => timerStore[j.user][j.kind] = j.id

\* the step just taken was stopFocusTimer called by the stop command for user u
Stopped(u) == last'.op = "stop" /\ last'.user = u

\* C6: start on an Idle session followed by stop within 60 seconds leaves every
\* field of the stats unchanged.
C6_QuickStopCommitsNothing ==
  [][\A u \in DOMAIN session :
       /\ (last'.op = "startBegin" /\ last'.user = u /\ ~session[u].isStudying)
          => stats' = stats
       /\ (last'.op \in {"startNotified", "start"} /\ last'.user = u)
          => stats' = stats
       /\ (Stopped(u) /\ session[u].isStudying
           /\ now - session[u].studyStartTime <= MsPerMinute)
          => stats' = stats]_vars

\* a Running session is stopped exactly 60 seconds after it started, nothing committed
C6_Witness ==
  /\ last.op = "stop" /\ last.before = "Running" /\ last.paused = 0
  /\ now = MsPerMinute
  /\ last.commits = <<>>
  /\ stats[last.user].totalSessions = 0

\* C7: stop on a non-Idle session whose elapsed minutes
\* (now - startTime - totalPausedDuration) / 60000 exceed 1 commits exactly one
\* session of round(elapsedMinutes) minutes.
C7_StopCommitsElapsed ==
  [][\A u \in DOMAIN session :
       (Stopped(u) /\ session[u].isStudying /\ session[u].studyStartTime # Null
        /\ now - session[u].studyStartTime - session[u].totalPausedTime > MsPerMinute)
       => /\ stats'[u].totalSessions = stats[u].totalSessions + 1
          /\ stats'[u].totalStudyTime = stats[u].totalStudyTime
               + MathRound(now - session[u].studyStartTime - session[u].totalPausedTime,
                           MsPerMinute)]_vars

\* start(2), stop a minute and a half later: one session of 2 minutes
C7_Witness ==
  /\ last.op = "stop" /\ last.before = "Running" /\ last.commits = <<2>>
  /\ \E u \in DOMAIN session :
       /\ last.user = u
       /\ stats[u].totalSessions = 1
       /\ stats[u].totalStudyTime = 2

\* C8: pause and resume never cancel, reschedule or delay a completion trigger:
\* they leave the scheduler and the handle store as they are, and every
\* completion trigger fires at the startTime plus the planned duration of the
\* start that scheduled it.
C8_DeadlineUnaffectedByPauses ==
  [][/\ last'.op \in {"pause", "resume"} => (jobs' = jobs /\ timerStore' = timerStore)
     /\ last'.op = "complete"
        => now = last'.job.startTime + last'.job.duration * MsPerMinute]_vars

\* a completion fires at the original deadline of a session that was paused and resumed
C8_Witness ==
  /\ last.op = "complete" /\ last.ret = "committed" /\ last.tracked
  /\ last.paused > 0
  /\ now = last.job.startTime + last.job.duration * MsPerMinute

\* C9: a completion trigger that fires while the session is Paused is a no-op:
\* nothing is committed and the session stays Paused.
C9_CompletionWhilePausedIgnored ==
  (last.op = "complete" /\ last.before = "Paused")
  => /\ last.ret = "ignored"
     /\ SessState(session[last.user]) = "Paused"

\* C10: pauseStartTime is set if and only if the session is Paused (active and
\* not Running); an Idle session never has pauseStartTime set.
C10_PauseStartIffPaused ==
  \A u \in DOMAIN session :
    /\ (session[u].pauseStartTime # Null)
       <=> (session[u].isStudying /\ SessState(session[u]) # "Running")
    /\ SessState(session[u]) = "Idle" => session[u].pauseStartTime = Null

\* a Paused session has just been stopped and is Idle with no pause mark
C10_Witness ==
  /\ last.op = "stop" /\ last.before = "Paused"
  /\ SessState(session[last.user]) = "Idle"
  /\ session[last.user].pauseStartTime = Null

\* C11: pause on a session that is not Running returns NoActiveTimer and leaves
\* session, timer handles, scheduled jobs and stats unchanged; pause on a Running
\* session sets pauseStartTime = now and makes it Paused.
C11_PauseOnlyWhenRunning ==
  [][\A u \in DOMAIN session :
       (last'.op = "pause" /\ last'.user = u)
       => IF SessState(session[u]) = "Running"
          THEN /\ last'.ret = "paused"
               /\ session' = [session EXCEPT ![u].pauseStartTime = now]
               /\ SessState(session'[u]) = "Paused"
          ELSE /\ last'.ret = "NoActiveTimer"
               /\ session' = session
               /\ timerStore' = timerStore
               /\ jobs' = jobs
               /\ stats' = stats]_vars

\* a pause was refused on a session paused earlier
C11_Witness ==
  /\ last.op = "pause" /\ last.ret = "NoActiveTimer" /\ last.before = "Paused"
  /\ session[last.user].pauseStartTime # Null
  /\ session[last.user].pauseStartTime < now

\* C12: resume on a session that is not Paused returns NoPausedTimer and leaves
\* session, timer handles, scheduled jobs and stats unchanged.
C12_ResumeOnlyWhenPaused ==
  [][\A u \in DOMAIN session :
       (last'.op = "resume" /\ last'.user = u /\ SessState(session[u]) # "Paused")
       => /\ last'.ret = "NoPausedTimer"
          /\ session' = session
          /\ timerStore' = timerStore
          /\ jobs' = jobs
          /\ stats' = stats]_vars

\* a resume was refused on a Running session
C12_Witness ==
  /\ last.op = "resume" /\ last.ret = "NoPausedTimer" /\ last.before = "Running"
  /\ SessState(session[last.user]) = "Running"

\* C13: resume on a Paused session adds delta = now - pauseStartTime to
\* totalPausedTime and to pausedDuration, clears pauseStartTime and makes the
\* session Running; totalPausedTime never decreases between a start and the
\* next stop or completion.
C13_ResumeAccumulates ==
  [][\A u \in DOMAIN session :
       /\ (last'.op = "resume" /\ last'.user = u /\ SessState(session[u]) = "Paused")
          => /\ last'.ret = "resumed"
             /\ session'[u].totalPausedTime
                  = session[u].totalPausedTime + (now - session[u].pauseStartTime)
             /\ session'[u].pausedDuration
                  = session[u].pausedDuration + (now - session[u].pauseStartTime)
             /\ session'[u].pauseStartTime = Null
             /\ SessState(session'[u]) = "Running"
       /\ last'.op \notin {"startBegin", "startNotified", "stop", "complete"}
          => session'[u].totalPausedTime >= session[u].totalPausedTime]_vars

\* a second pause of the same session has been added to the first
C13_Witness ==
  /\ last.op = "resume" /\ last.ret = "resumed"
  /\ last.paused > 0
  /\ session[last.user].totalPausedTime > last.paused
  /\ session[last.user].pausedDuration = session[last.user].totalPausedTime

\* C14: on every entry path a start whose duration is <= 0 or outside 1..180 is
\* rejected with InvalidDuration, a rejected start changes neither session,
\* scheduled triggers nor stats, and no session is ever active with a planned
\* duration outside 1..180.
C14_DurationWithinPolicy ==
  [][/\ \A p \in pending' \ pending :
          (p.kind = "start" /\ p.pc = "notify") => p.duration \in 1..MaxFocusMinutes
     /\ last'.ret = "InvalidDuration"
          => UNCHANGED <<session, stats, timerStore, jobs>>
     /\ \A u \in DOMAIN session :
          session'[u].isStudying
          => session'[u].plannedDuration \in 1..MaxFocusMinutes]_vars

\* C15: after a successful start(u, d), whatever the prior state, the session is
\* Running with startTime = now, plannedDuration = d, no pause in progress and
\* zero paused totals; the update and completion jobs of the previous session
\* are cancelled; exactly one update job and one completion job, due at
\* startTime + d minutes, are scheduled for the user and recorded.
C15_StartEstablishesSession ==
  [][\A p \in pending \ pending' :
       (p.kind = "start" /\ last'.op = "start" /\ last'.ret = "started")
       => LET u == p.user
              scheduled == {j \in jobs' : j.user = u /\ j.kind \in {"update", "end"}}
          IN /\ SessState(session'[u]) = "Running"
             /\ session'[u].studyStartTime = now
             /\ session'[u].plannedDuration = p.duration
             /\ session'[u].pauseStartTime = Null
             /\ session'[u].totalPausedTime = 0
             /\ session'[u].pausedDuration = 0
             /\ Cardinality({j \in scheduled : j.kind = "update"}) = 1
             /\ Cardinality({j \in scheduled : j.kind = "end"}) = 1
             /\ \A j \in scheduled :
                  /\ timerStore'[u][j.kind] = j.id
                  /\ j.kind = "end" => j.due = now + p.duration * MsPerMinute]_vars

\* C16: after stop(u), from any state, the session is Idle with startTime and
\* pauseStartTime null and paused totals zero, no update or completion handle
\* remains stored for the user, and the update and completion jobs of the
\* session are cancelled: none stays scheduled for the user.
C16_StopResetsSession ==
  [][\A u \in DOMAIN session :
       (last'.op = "stop" /\ last'.user = u)
       => /\ SessState(session'[u]) = "Idle"
          /\ session'[u].studyStartTime = Null
          /\ session'[u].pauseStartTime = Null
          /\ session'[u].totalPausedTime = 0
          /\ session'[u].pausedDuration = 0
          /\ timerStore'[u]["update"] = Null
          /\ timerStore'[u]["end"] = Null
          /\ \A j \in jobs' : ~(j.user = u /\ j.kind \in {"update", "end"})]_vars

\* C17: whether a notification is delivered or fails never affects session
\* state, stored handles, scheduled jobs or stats: the step that ends a
\* handler's wait for its message leaves the same jobs, handles, session
\* condition and stats whatever the outcome; in particular a start whose
\* progress message cannot be sent leaves no Running session without update
\* and completion jobs.
C17_NotificationOutcomeIrrelevant ==
  [][\A p \in pending \ pending' :
       /\ (p.kind = "start" /\ p.pc = "render")
          => LET w == ScheduleSession(World, p.user, p.startTime, p.duration, now)
             IN /\ jobs' = w.jobs
                /\ timerStore' = w.timerStore
                /\ SessState(session'[p.user]) = SessState(session[p.user])
                /\ stats' = stats
       /\ (p.kind = "complete" /\ p.pc = "congrats")
          => /\ \E j \in jobs' \ jobs :
                  /\ j.kind = "break" /\ j.due = now + BreakDelay
                  /\ timerStore'[p.user]["break"] = j.id
             /\ session' = session
             /\ stats' = stats]_vars

\* the number of consecutive days with recorded study time that end on day d
RECURSIVE RunLength(_, _)
RunLength(days, d) == IF d \in days THEN 1 + RunLength(days, d - 1) ELSE 0

\* C18: the streak after a commit depends only on the previous lastStudyDate:
\* none gives 1, exactly one calendar day before today gives streak + 1, today
\* leaves it unchanged, anything else gives 1. So the streak after a commit is
\* the number of consecutive study days ending today: days 1,2,3 give 3, a
\* further commit on day 5 gives 1, two commits on one day leave it unchanged.
C18_StreakRule ==
  [][\A u \in DOMAIN stats :
       (last'.op = "commit" /\ last'.user = u)
       => LET prev == stats[u].lastStudyDate
              today == FormatDate(now)
          IN /\ stats'[u].streak =
                  IF prev = Null THEN 1
                  ELSE IF FormatDate(prev) = today - 1 THEN stats[u].streak + 1
                  ELSE IF FormatDate(prev) = today THEN stats[u].streak
                  ELSE 1
             /\ stats'[u].streak = RunLength(DOMAIN stats'[u].dailyStudyTime, today)]_vars

\* a new user studied on three consecutive days, skipped one, and the commit
\* after the gap has reset the streak
C18_Witness ==
  LET st == stats[last.user]
      today == FormatDate(now)
  IN /\ last.op = "commit"
     /\ st.totalSessions = 4 /\ st.streak = 1
     /\ DOMAIN st.dailyStudyTime = {today - 4, today - 3, today - 2, today}

\* C19: each commit of m minutes increases totalStudyTime by m and
\* totalSessions by exactly 1, sets longestSession to the maximum of its
\* previous value and m, increases today's dailyStudyTime entry by m (creating
\* it at m if absent) and leaves every other day's entry unchanged.
C19_CommitUpdates ==
  [][\A u \in DOMAIN stats :
       (last'.op = "commit" /\ last'.user = u)
       => LET m == last'.commits[1]
              today == FormatDate(now)
              daily == stats[u].dailyStudyTime
          IN /\ stats'[u].totalStudyTime = stats[u].totalStudyTime + m
             /\ stats'[u].totalSessions = stats[u].totalSessions + 1
             /\ stats'[u].longestSession = Max(stats[u].longestSession, m)
             /\ DOMAIN stats'[u].dailyStudyTime = DOMAIN daily \cup {today}
             /\ stats'[u].dailyStudyTime[today]
                  = (IF today \in DOMAIN daily THEN daily[today] ELSE 0) + m
             /\ \A d \in DOMAIN daily \ {today} :
                  stats'[u].dailyStudyTime[d] = daily[d]]_vars

\* a session shorter than the longest one was added to a day that already had
\* study time, with another day on record
C19_Witness ==
  LET st == stats[last.user]
      today == FormatDate(now)
  IN /\ last.op = "commit" /\ last.commits = <<1>>
     /\ st.longestSession = 2
     /\ today \in DOMAIN st.dailyStudyTime
     /\ st.dailyStudyTime[today] = 3
     /\ Cardinality(DOMAIN st.dailyStudyTime) >= 2

\* C20: for every reachable stats state the productivity score is in 0..100 and
\* each of its four sub-scores (activity, streak, sessions, tasks) is in 0..25.
C20_ScoreInRange ==
  \A u \in DOMAIN stats :
    LET dailyStats == getDailyStudyStats(stats[u].dailyStudyTime, 7, now)
        sc == ProductivityScores(stats[u], dailyStats)
    IN /\ calculateProductivityScore(stats[u], dailyStats) \in 0..100
       /\ \A k \in DOMAIN sc : sc[k] \in 0..25
       /\ (last.op = "stats" /\ last.user = u)
          => /\ last.render.score \in 0..100
             /\ \A k \in DOMAIN last.render.scores : last.render.scores[k] \in 0..25

\* a score was shown in which the clamp binds for sessions and tasks but not for
\* the streak and the week's activity
C20_Witness ==
  /\ last.op = "stats"
  /\ stats[last.user].totalSessions > maxSessions
  /\ stats[last.user].totalCompletedTasks > maxCompletedTasks
  /\ last.render.scores.sessionScore = 25
  /\ last.render.scores.taskScore = 25
  /\ last.render.scores.streakScore \in 1..24
  /\ last.render.scores.activeScore \in 1..24

\* C21: every value passed to addCompletedSession, by stop or by the completion
\* trigger, is an integer of at least 1, so totalStudyTime, longestSession and
\* every dailyStudyTime entry are never negative.
C21_CommitsAtLeastOne ==
  /\ \A i \in DOMAIN last.commits : last.commits[i] >= 1
  /\ \A u \in DOMAIN stats :
       /\ stats[u].totalStudyTime >= 0
       /\ stats[u].longestSession >= 0
       /\ \A d \in DOMAIN stats[u].dailyStudyTime : stats[u].dailyStudyTime[d] >= 1

\* a completion committed a session that was paused until its deadline
C21_Witness ==
  /\ last.op = "complete" /\ last.ret = "committed"
  /\ last.before = "Paused"
  /\ last.paused > 0
  /\ Len(last.commits) >= 1
  /\ stats[last.user].totalStudyTime >= 1

\* C25: a tick renders a progress update only when the session is Running and
\* the tick was scheduled by the start that created the current session; when
\* the session is Paused or Idle, or the tick belongs to a superseded session,
\* it renders nothing; and a tick never changes a session field, a stored
\* handle or the stats.
C25_TickRendersCurrentSession ==
  [][\A u \in DOMAIN session :
       (last'.op = "tick" /\ last'.user = u)
       => LET s == session[u]
              j == last'.job
              current == /\ j.startTime = s.studyStartTime
                         /\ j.duration = s.plannedDuration
          IN /\ last'.ret = "rendered" => (SessState(s) = "Running" /\ current)
             /\ SessState(s) # "Running" => last'.ret = "skipped"
             /\ session' = session
             /\ timerStore' = timerStore
             /\ stats' = stats]_vars

\* C26: the sweep cancels and removes every stored handle of a user whose
\* session is Idle, cancels and removes no handle of a user whose session is
\* Running or Paused, changes no session or stats field, and a second sweep
\* right after it changes nothing.
C26_SweepOnlyIdle ==
  [][last'.op = "cleanup"
     => /\ \A u \in DOMAIN session :
             LET stored == {timerStore[u][k] : k \in Kinds} \ {Null}
             IN IF SessState(session[u]) = "Idle"
                THEN /\ timerStore'[u] = initialTimers
                     /\ \A j \in jobs' : j.id \notin stored
                ELSE /\ timerStore'[u] = timerStore[u]
                     /\ \A j \in jobs : j.id \in stored => j \in jobs'
        /\ session' = session
        /\ stats' = stats
        /\ LET after == [session |-> session', stats |-> stats',
                         timerStore |-> timerStore', jobs |-> jobs']
           IN cleanupTimers(after) = after]_vars

\* a sweep removed the break reminder of a user who had finished a session
C26_Witness ==
  /\ last.op = "cleanup" /\ last.ret = "swept"
  /\ \E u \in DOMAIN session :
       /\ SessState(session[u]) = "Idle"
       /\ stats[u].totalSessions >= 1
       /\ timerStore[u] = initialTimers

\* minutes recorded for a calendar day, 0 when the day has no entry
MinutesOn(dailyData, date) ==
  IF date \in DOMAIN dailyData THEN dailyData[date] ELSE 0

\* C29: the daily series for N days has exactly N entries, one per calendar day
\* from today - (N - 1) to today, oldest first, each with the minutes recorded
\* for that day, or 0 when none are recorded.
C29_DailySeries ==
  \A u \in DOMAIN stats : \A n \in 1..SeriesDays :
    LET series == getDailyStudyStats(stats[u].dailyStudyTime, n, now)
        today == FormatDate(now)
    IN /\ Len(series) = n
       /\ \A i \in 1..n :
            /\ series[i].date = today - (n - 1) + (i - 1)
            /\ series[i].minutes = MinutesOn(stats[u].dailyStudyTime, series[i].date)
       /\ series[n].date = today
       /\ (last.op = "stats" /\ last.user = u /\ n = 7)
          => last.render.dailyStats = series

\* the week shown has days with and without study time, today's among them
C29_Witness ==
  /\ last.op = "stats"
  /\ Len(last.render.dailyStats) = 7
  /\ last.render.dailyStats[7].minutes > 0
  /\ last.render.dailyStats[6].minutes = 0
  /\ last.render.dailyStats[5].minutes > 0
  /\ last.render.dailyStats[1].minutes = 720

\* wall-clock time for which the session has been Running: the time since the
\* start less the finished pauses and the pause still in progress
RunningMs(s, t) ==
  StudyMs(s, t) - (IF s.pauseStartTime # Null THEN t - s.pauseStartTime ELSE 0)

\* C30: the minutes committed by stop never include time the session spent
\* paused, including the pause still in progress when a Paused session is
\* stopped: the committed value never exceeds the rounded wall-clock time for
\* which the session was Running.
C30_StopExcludesPauses ==
  [][\A u \in DOMAIN session :
       (last'.op = "stop" /\ last'.user = u)
       => \A i \in DOMAIN last'.commits :
            last'.commits[i] <= MathRound(RunningMs(session[u], now), MsPerMinute)]_vars

\* C27: every completion that commits a session schedules exactly one break
\* reminder for 5 minutes later, and that reminder stays scheduled until it
\* fires, so that it fires exactly once, whatever commands, notification
\* outcomes or sweeps occur in those 5 minutes.
C27_BreakReminderFires ==
  [][/\ \A p \in pending \ pending' :
          (p.kind = "complete" /\ p.pc = "congrats")
          => /\ Cardinality({j \in jobs' \ jobs : j.kind = "break"}) = 1
             /\ \A j \in jobs' \ jobs :
                  j.kind = "break" => (j.user = p.user /\ j.due = now + BreakDelay)
     /\ \A j \in jobs \ jobs' :
          j.kind = "break" => (last'.op = "break" /\ last'.job = j)]_vars

\* C28: no trigger callback (tick, completion, break reminder) lets an error
\* leave the callback, for any session state and any combination of
\* notification failures: every failure inside a callback is caught and logged.
C28_CallbacksNeverThrow ==
  last.op \in {"tick", "complete", "completeRendered", "break", "breakFinally"}
  => last.outcome = "returned"

\* a completion whose congratulation message failed has ended
C28_Witness ==
  /\ last.op = "completeRendered" /\ last.ret = "failed"
  /\ last.outcome = "returned"
  /\ timerStore[last.user]["break"] = Null

\* C23: the stats counters are monotonic: across any sequence of operations
\* totalStudyTime, totalSessions, longestSession and totalCompletedTasks of a
\* user never decrease.
C23_CountersMonotonic ==
  [][\A u \in DOMAIN stats :
       /\ stats'[u].totalStudyTime >= stats[u].totalStudyTime
       /\ stats'[u].totalSessions >= stats[u].totalSessions
       /\ stats'[u].longestSession >= stats[u].longestSession
       /\ stats'[u].totalCompletedTasks >= stats[u].totalCompletedTasks]_vars

\* C23 as amended: totalStudyTime, totalSessions and longestSession of a user
\* never decrease; totalCompletedTasks is never negative and decreases, by one,
\* only when a task of that user is toggled or deleted.
C23_StudyCountersMonotonic ==
  [][\A u \in DOMAIN stats :
       /\ stats'[u].totalStudyTime >= stats[u].totalStudyTime
       /\ stats'[u].totalSessions >= stats[u].totalSessions
       /\ stats'[u].longestSession >= stats[u].longestSession
       /\ stats'[u].totalCompletedTasks >= 0
       /\ stats'[u].totalCompletedTasks < stats[u].totalCompletedTasks
          => /\ last'.op \in {"toggleTask", "deleteTask"}
             /\ last'.user = u
             /\ stats'[u].totalCompletedTasks = stats[u].totalCompletedTasks - 1]_vars

\* after two recorded sessions the only completed task was marked not done
C23_Witness ==
  LET u == last.user
  IN /\ last.op = "toggleTask" /\ last.ret = "toggled"
     /\ Len(tasks[u]) >= 1
     /\ \A i \in 1..Len(tasks[u]) : ~tasks[u][i].completed
     /\ stats[u].totalCompletedTasks = 0
     /\ stats[u].totalSessions >= 2

\* the fields of a user's Stats record other than totalCompletedTasks
StudyStats(st) == [st EXCEPT !.totalCompletedTasks = 0]

\* the steps of a start on an Idle session, pause, resume, tick and the sweep
FrameSteps(e) ==
  \/ e.op = "startBegin" /\ e.before = "Idle"
  \/ e.op \in {"startNotified", "pause", "resume", "tick", "cleanup"}
  \/ e.op = "start" /\ e.ret # "InvalidDuration"

\* C22: start (on an Idle session), pause, resume, tick, the reconciliation
\* sweep and every task operation (add, toggle complete, delete) leave all
\* fields of every Stats record unchanged.
C22_OnlyCommitMutatesStats ==
  [][(FrameSteps(last') \/ last'.op \in {"addTask", "toggleTask", "deleteTask"})
       => stats' = stats]_vars

\* C22 as amended: start (on an Idle session), pause, resume, tick, the sweep
\* and adding a task leave all fields of every Stats record unchanged; toggling
\* and deleting a task leave every field but totalCompletedTasks unchanged, and
\* no Stats record of another user changed.
C22_OnlyCommitMutatesStudyStats ==
  [][/\ (FrameSteps(last') \/ last'.op = "addTask") => stats' = stats
     /\ last'.op \in {"toggleTask", "deleteTask"}
          => \A u \in DOMAIN stats :
               /\ StudyStats(stats'[u]) = StudyStats(stats[u])
               /\ u # last'.user => stats'[u] = stats[u]]_vars

\* a user with one recorded session has just marked a task done
C22_Witness ==
  LET u == last.user
  IN /\ last.op = "toggleTask" /\ last.ret = "toggled"
     /\ stats[u].totalCompletedTasks = 1
     /\ stats[u].totalSessions = 1
     /\ stats[u].totalStudyTime = 1

\* C24: a command or trigger executed for user u (start, pause, resume, stop,
\* tick, completion, task operations) leaves the session, stats, tasks and
\* stored timer handles of every other user unchanged.
C24_UsersIndependent ==
  [][last'.op \notin {"clock", "cleanup"}
       => \A v \in DOMAIN session \ {last'.user} :
            /\ session'[v] = session[v]
            /\ stats'[v] = stats[v]
            /\ tasks'[v] = tasks[v]
            /\ timerStore'[v] = timerStore[v]]_vars

\* a user stopped a running session while the other user, who has a task and a
\* recorded session, is studying with both handles stored
C24_Witness ==
  \E v \in DOMAIN session \ {last.user} :
    /\ last.op = "stop" /\ last.before = "Running"
    /\ session[v].isStudying
    /\ timerStore[v]["update"] # Null /\ timerStore[v]["end"] # Null
    /\ Len(tasks[v]) >= 1

\* the number of tasks of a list whose completed flag is true
CompletedCount(list) == Cardinality({i \in 1..Len(list) : list[i].completed})

\* C38: in every reachable state totalCompletedTasks equals the number of
\* tasks in the user's list whose completed flag is true, and is never negative.
C38_CountMatchesCompleted ==
  \A u \in DOMAIN tasks :
    /\ stats[u].totalCompletedTasks = CompletedCount(tasks[u])
    /\ stats[u].totalCompletedTasks >= 0

\* a completed task was deleted while another completed task and an open one stay
C38_Witness ==
  LET u == last.user
  IN /\ last.op = "deleteTask" /\ last.ret = "deleted"
     /\ Len(tasks[u]) = 2
     /\ CompletedCount(tasks[u]) = 1
     /\ stats[u].totalCompletedTasks = 1

\* no task of the list has this id
NoSuchTask(list, taskId) == \A i \in 1..Len(list) : list[i].id # taskId

\* C39: the ids within one user's task list are pairwise distinct after every
\* step, and a toggle or delete for an id that is not in the list returns
\* not-found and changes neither the tasks nor the stats.
C39_TaskIdsDistinct ==
  [][/\ \A u \in DOMAIN tasks : \A i, k \in 1..Len(tasks'[u]) :
          tasks'[u][i].id = tasks'[u][k].id => i = k
     /\ \A u \in DOMAIN tasks : \A taskId \in 1..MaxTaskId :
          (NoSuchTask(tasks[u], taskId)
           /\ (ToggleTask(u, taskId) \/ DeleteTask(u, taskId)))
          => /\ last'.ret = "notFound"
             /\ tasks' = tasks
             /\ stats' = stats]_vars

\* after the first task was deleted and two more added, a toggle found no task
C39_Witness ==
  LET u == last.user
  IN /\ last.op = "toggleTask" /\ last.ret = "notFound"
     /\ Len(tasks[u]) = 2
     /\ tasks[u][1].id = 2 /\ tasks[u][2].id = 3

\* (now - startTime - totalPausedDuration) of the session a step began with
AccountedMs(u) == now - session[u].studyStartTime - session[u].totalPausedTime

\* C31: a start issued while the session is Running or Paused first ends that
\* session as stop would: accounted elapsed time above one minute is committed
\* exactly once as round(elapsedMinutes), otherwise nothing is committed; the
\* session is Idle and its handles are cleared before the new one is started.
C31_StartEndsPreviousSession ==
  [][\A u \in DOMAIN session :
       (last'.op = "startBegin" /\ last'.user = u /\ session[u].isStudying)
       => /\ IF session[u].studyStartTime # Null /\ AccountedMs(u) > MsPerMinute
             THEN /\ stats'[u].totalSessions = stats[u].totalSessions + 1
                  /\ stats'[u].totalStudyTime =
                       stats[u].totalStudyTime + MathRound(AccountedMs(u), MsPerMinute)
             ELSE stats'[u] = stats[u]
          /\ SessState(session'[u]) = "Idle"
          /\ session'[u].studyStartTime = Null
          /\ timerStore'[u]["update"] = Null /\ timerStore'[u]["end"] = Null]_vars

\* a start a minute and a half into a running session recorded its 2 minutes
C31_Witness ==
  LET u == last.user
  IN /\ last.op = "startBegin" /\ last.before = "Running"
     /\ last.commits = <<2>>
     /\ stats[u].totalSessions = 1 /\ stats[u].totalStudyTime = 2
     /\ SessState(session[u]) = "Idle"

\* C36: stop on an Idle session commits nothing, leaves the stats unchanged and
\* the session Idle; a stop that directly follows a stop of the same user leaves
\* session, stored handles and stats as the first stop left them.
C36_StopIdempotent ==
  [][\A u \in DOMAIN session :
       /\ (last'.op = "stop" /\ last'.user = u /\ SessState(session[u]) = "Idle")
          => /\ stats' = stats
             /\ last'.commits = <<>>
             /\ SessState(session'[u]) = "Idle"
       /\ (last.op = "stop" /\ last.user = u /\ last'.op = "stop" /\ last'.user = u)
          => /\ session' = session
             /\ timerStore' = timerStore
             /\ stats' = stats]_vars

\* a second stop right after the stop that recorded a session of 2 minutes
C36_Witness ==
  LET u == last.user
  IN /\ last.op = "stop" /\ last.before = "Idle" /\ last.commits = <<>>
     /\ stats[u].totalSessions = 1 /\ stats[u].totalStudyTime = 2
     /\ session[u] = ResetSession(session[u])
     /\ timerStore[u] = initialTimers

\* C37: every progress message rendered by a start or a tick shows a
\* progressPercent that is an integer in 0..100 and a remaining time that is
\* not negative.
C37_RenderInRange ==
  last.render # NoRender
  => /\ last.op \in {"start", "tick"}
     /\ last.render.percent \in 0..100
     /\ last.render.remaining >= 0

\* a tick rendered after the end time of the start that scheduled it: the
\* elapsed share is above 100 percent and the remaining time below zero
C37_Witness ==
  /\ last.op = "tick" /\ last.ret = "rendered"
  /\ now > last.job.endTime
  /\ now - last.job.startTime - last.paused > last.job.endTime - last.job.startTime
  /\ last.render.percent = 100
  /\ last.render.remaining = 0

\* the sum of the values of a function with a finite domain
RECURSIVE SumOf(_)
SumOf(f) ==
  IF DOMAIN f = {} THEN 0
  ELSE LET d == CHOOSE x \in DOMAIN f : TRUE
       IN f[d] + SumOf([x \in DOMAIN f \ {d} |-> f[x]])

\* C34: in every reachable state totalStudyTime equals the sum of all values of
\* dailyStudyTime, and longestSession is at most totalStudyTime.
C34_TotalIsSumOfDays ==
  \A u \in DOMAIN stats :
    /\ stats[u].totalStudyTime = SumOf(stats[u].dailyStudyTime)
    /\ stats[u].longestSession <= stats[u].totalStudyTime

\* a new user with three sessions on two days, the longest of 2 minutes
C34_Witness ==
  \E u \in DOMAIN stats :
    /\ last.op = "commit" /\ last.user = u
    /\ stats[u].totalSessions = 3
    /\ Cardinality(DOMAIN stats[u].dailyStudyTime) = 2
    /\ stats[u].longestSession = 2
    /\ stats[u].totalStudyTime >= 4

\* C35: streak = 0, totalSessions = 0 and lastStudyDate = null hold together or
\* not at all; once totalSessions >= 1, 1 <= streak <= totalSessions.
C35_StreakWithinSessions ==
  \A u \in DOMAIN stats :
    /\ (stats[u].streak = 0) = (stats[u].totalSessions = 0)
    /\ (stats[u].totalSessions = 0) = (stats[u].lastStudyDate = Null)
    /\ stats[u].totalSessions >= 1
       => (1 <= stats[u].streak /\ stats[u].streak <= stats[u].totalSessions)

\* a new user whose three sessions on three consecutive days make a streak of 3
C35_Witness ==
  \E u \in DOMAIN stats :
    /\ last.op = "commit" /\ last.user = u
    /\ stats[u].totalSessions = 3
    /\ stats[u].streak = 3

\* the handle of this type is stored for u and its job is still scheduled
HandleLive(u, timerType) ==
  /\ timerStore[u][timerType] # Null
  /\ \E j \in jobs : j.id = timerStore[u][timerType] /\ j.kind = timerType /\ j.user = u

\* C32: whenever no command handler of a user is suspended at an await, the
\* session is Running or Paused if and only if a tick handle and a completion
\* handle are stored for the user with their jobs still scheduled; an Idle
\* session has neither handle.
C32_ActiveIffHandles ==
  \A u \in DOMAIN session :
    (\A p \in pending : ~(p.user = u /\ p.kind = "start"))
    => /\ session[u].isStudying <=> (HandleLive(u, "update") /\ HandleLive(u, "end"))
       /\ ~session[u].isStudying
          => (timerStore[u]["update"] = Null /\ timerStore[u]["end"] = Null)

\* C33: every session that became Running has returned to Idle once the clock
\* has passed every deadline and every trigger due by then has fired, whatever
\* the user did in between, a pause left open included.
C33_IdleAfterDeadline ==
  \A u \in DOMAIN session :
    (now = MaxTime /\ pending = {}) => ~session[u].isStudying
====
